---- MODULE Spec2Model ----
(***************************************************************************)
(* Model of the Support page of the admin dashboard (the Support React     *)
(* component with unread flags and a reconnecting WebSocket, together with *)
(* the two server actions it calls).                                       *)
(*                                                                         *)
(* The component state (useState / useRef) is the state of the model.  The *)
(* browser runtime (sockets, timers, HTTP requests in flight) and the      *)
(* remote chat-log service are the environment.  Every handler of the      *)
(* component is one action; an async handler is one action per segment     *)
(* between two awaits.                                                     *)
(***************************************************************************)
EXTENDS Integers, Sequences, FiniteSets, TLC

\* ---------------------------------------------------------------- bounds
MaxChats == 2      \* chats the service ever creates
MaxMsgs == 2       \* messages ever created (operator and customers together)
MaxSockets == 3    \* WebSocket objects ever constructed
MaxStarts == 2     \* times the mount effects run
MaxListed == 12    \* chats of the longest list that is paginated

\* ------------------------------------------------------ program constants
\* (the two delays are not used: a pending timeout fires at any time)
CHATS_PER_PAGE == 5
WS_RECONNECT_DELAY == 2000
CONNECTION_TIMEOUT == 10000
NORMAL_CLOSURE == 1000

\* ------------------------------------------------------------ data model
\* A Message.  mid is the identity of the message (the model's name for
\* "this message"); sender and content are the fields of the interface.
Message(mid, sender, content) ==
  [mid |-> mid, sender |-> sender, content |-> content]

\* A ChatLog.  hasUnread is optional in the interface; an absent flag and
\* false are both rendered as "read", so absent is modelled as FALSE.
ChatLog(id, clientId, userLogs, hasUnread) ==
  [_id |-> id, clientId |-> clientId, userLogs |-> userLogs, hasUnread |-> hasUnread]

\* selectedLog = null
NoLog == ChatLog(0, 0, <<>>, FALSE)

IsNull(log) == log._id = 0

\* The client identifier the service gives to chat id (ids and client
\* identifiers are different values, one client per chat).
ClientOf(id) == 100 + id

\* The texts the operator can type: sequences of characters.
Inputs == { <<>>, <<" ">>, <<" ", "h", " ">> }

RECURSIVE TrimStart(_)
TrimStart(s) ==
  IF s # <<>> /\ Head(s) = " " THEN TrimStart(Tail(s)) ELSE s

RECURSIVE TrimEnd(_)
TrimEnd(s) ==
  IF s # <<>> /\ s[Len(s)] = " " THEN TrimEnd(SubSeq(s, 1, Len(s) - 1)) ELSE s

TrimIdentity(s) == s

\* String.prototype.trim
Trim(s) == TrimEnd(TrimStart(s))

\* Array.prototype.map over a sequence
MapSeq(s, F(_)) == [i \in 1..Len(s) |-> F(s[i])]

\* Array.prototype.find: the first element satisfying P, or NoLog (undefined)
FindLog(s, P(_)) ==
  IF \E i \in 1..Len(s) : P(s[i])
  THEN s[CHOOSE i \in 1..Len(s) : P(s[i]) /\ \A j \in 1..(i - 1) : ~P(s[j])]
  ELSE NoLog

\* ------------------------------------------------------------- variables
VARIABLES
  chatLogs,             \* useState<ChatLog[]>
  selectedLog,          \* useState<ChatLog | null>
  messageInput,         \* useState("")
  page,                 \* useState(1)
  loading,              \* useState(false)
  isOnline,             \* useState(false)
  wsRef,                \* useRef<WebSocket | null>: a socket number or 0
  reconnectTimeoutRef,  \* useRef<Timeout>: a timer number or 0 (undefined)
  sockets,              \* the WebSocket objects constructed so far
  timers,               \* reconnect timeouts pending in the event loop
  tasks,                \* async handlers suspended at an await
  server,               \* the chat logs held by the remote service
  nextMsg,              \* messages created so far
  nextChat,             \* chats created so far
  starts,               \* times the mount effects have run
  mounted,              \* the mount effects have run and not been cleaned up
  lastEvent             \* the handler of the page that ran last ("env": a step of
                        \* the service or a keystroke)

storeVars == <<chatLogs, selectedLog, messageInput, page, loading>>
chanVars == <<isOnline, wsRef, reconnectTimeoutRef, sockets, timers>>
envVars == <<server, nextMsg, nextChat>>
vars == <<chatLogs, selectedLog, messageInput, page, loading, isOnline, wsRef,
          reconnectTimeoutRef, sockets, timers, tasks, server, nextMsg,
          nextChat, starts, mounted, lastEvent>>

NoMsg == Message(0, "", <<>>)

\* lastEvent: op names the handler; for a socket handler sock is its socket
\* and, for onclose, code and wasClean are the fields of the CloseEvent; for
\* onopen, code is the pending reconnect timeout that it cleared (0: none).
Event(op, sock, code, wasClean) ==
  [op |-> op, sock |-> sock, code |-> code, wasClean |-> wasClean]

\* ------------------------------------------------- the browser's WebSocket
\* A WebSocket object.  rs is readyState.  closeReq records how close() was
\* called: 0 never, 1006 while CONNECTING (the browser fails the connection:
\* the CloseEvent has code 1006 and wasClean false), else the code the
\* closing handshake reports when it completes (1005 for close() without a
\* code).  ct: the connectionTimeout of this socket is pending.  inbox: the
\* frames the service has sent on this socket and onmessage has not seen.
NewSocket == [rs |-> "CONNECTING", closeReq |-> 0, ct |-> TRUE, inbox |-> <<>>]

\* WebSocket.close(code)
WsClose(sock, code) ==
  IF sock.rs = "CONNECTING" THEN [sock EXCEPT !.rs = "CLOSING", !.closeReq = 1006]
  ELSE IF sock.rs = "OPEN" THEN [sock EXCEPT !.rs = "CLOSING", !.closeReq = code]
  ELSE sock

\* The CloseEvents (code, wasClean) the browser can deliver for a socket.
CloseEvents(sock) ==
  IF sock.rs = "CONNECTING" THEN { <<1006, FALSE>> }
  ELSE IF sock.rs = "OPEN" THEN { <<1006, FALSE>>, <<1000, TRUE>>, <<1001, TRUE>> }
  ELSE IF sock.rs = "CLOSING"
       THEN IF sock.closeReq = 1006 THEN { <<1006, FALSE>> }
            ELSE { <<sock.closeReq, TRUE>>, <<1006, FALSE>> }
  ELSE {}

\* ------------------------------------------------------ connectWebSocket
ConnectSkipsOpenOnly(ref, socks) ==
  ref # 0 /\ socks[ref].rs = "OPEN"

\* connectWebSocket returns early when the current socket is OPEN or
\* CONNECTING.
ConnectSkips(ref, socks) ==
  ref # 0 /\ socks[ref].rs \in {"OPEN", "CONNECTING"}

\* The refs after connectWebSocket(): the socket wsRef held is closed and
\* forgotten, a new socket is constructed and stored in wsRef.
ConnectWebSocket(ref, socks) ==
  IF ConnectSkips(ref, socks) THEN [wsRef |-> ref, sockets |-> socks]
  ELSE LET closed == IF ref # 0
                     THEN [socks EXCEPT ![ref] = WsClose(@, 1005)]
                     ELSE socks
       IN [wsRef |-> Len(socks) + 1, sockets |-> Append(closed, NewSocket)]

\* connectWebSocket can run: it constructs at most MaxSockets sockets.
CanConnect == ConnectSkips(wsRef, sockets) \/ Len(sockets) < MaxSockets

\* The selectedLog that the handlers of a socket see.  connectWebSocket is
\* called by the mount effect (dependency array []) and, through the closure
\* of onclose, by the reconnect timer of a socket that the same
\* connectWebSocket made: every socket's handlers close over the first
\* render, in which selectedLog is useState's initial value.
ClosureSelectedLog == NoLog

ShouldReconnectAlways(ref, code, wasClean) == TRUE

\* The condition under which onclose schedules a reconnect.
ShouldReconnect(ref, code, wasClean) ==
  ref = 0 /\ code # NORMAL_CLOSURE /\ ~wasClean

\* ------------------------------------------------------------ pagination
Min(a, b) == IF a < b THEN a ELSE b
Max(a, b) == IF a > b THEN a ELSE b

TotalPagesFloor(n) == n \div CHATS_PER_PAGE

\* Math.ceil(n / CHATS_PER_PAGE)
TotalPages(n) == (n + CHATS_PER_PAGE - 1) \div CHATS_PER_PAGE

\* Array.prototype.slice(start, end): the (1-based) positions it returns
SliceIndex(k, len) == IF k < 0 THEN Max(len + k, 0) ELSE Min(k, len)
SlicePositions(len, start, end) ==
  { i \in 1..len : SliceIndex(start, len) < i /\ i <= SliceIndex(end, len) }

\* Array.prototype.slice(start, end)
Slice(s, start, end) ==
  LET from == SliceIndex(start, Len(s))
      to == SliceIndex(end, Len(s))
  IN [k \in 1..Max(to - from, 0) |-> s[from + k]]

\* paginatedLogs of the render with page p
PaginatedLogs(logs, p) ==
  Slice(logs, (p - 1) * CHATS_PER_PAGE, p * CHATS_PER_PAGE)

\* the positions of chatLogs shown on the current page
PaginatedPositions(logs, p) ==
  SlicePositions(Len(logs), (p - 1) * CHATS_PER_PAGE, p * CHATS_PER_PAGE)

\* ----------------------------------------------------------------- Init
Init ==
  /\ chatLogs = <<>>
  /\ selectedLog = NoLog
  /\ messageInput = <<>>
  /\ page = 1
  /\ loading = FALSE
  /\ isOnline = FALSE
  /\ wsRef = 0
  /\ reconnectTimeoutRef = 0
  /\ sockets = <<>>
  /\ timers = {}
  /\ tasks = {}
  /\ server = <<>>
  /\ nextMsg = 0
  /\ nextChat = 0
  /\ starts = 0
  /\ mounted = FALSE
  /\ lastEvent = Event("init", 0, 0, FALSE)

\* An async handler suspended at an await.  kind "init" is fetchLogs of the
\* mount effect, "send" is handleSendMessage.  phase: "post" the POST of
\* updateAdminChatLog is in flight, "posted"/"postFailed" its response is,
\* "get" the GET of getAdminSupportLogs is in flight, "got" its response is.
\* selId and selClient are selectedLog._id and selectedLog.clientId of the
\* render the handler was created in.  result: "ok", "missing" (no result
\* field, or null for a missing signing key) or "error" (the call throws).
Task(kind, phase, gen, log, msg) ==
  [kind |-> kind, phase |-> phase, gen |-> gen, aborted |-> FALSE,
   selId |-> log._id, selClient |-> log.clientId, msg |-> msg,
   result |-> "", snap |-> <<>>]

\* --------------------------------------------------- the remote service
\* The service appends message m to the chat of client cid.
ServerAppend(logs, cid, m) ==
  MapSeq(logs, LAMBDA log :
    IF log.clientId = cid THEN [log EXCEPT !.userLogs = Append(@, m)] ELSE log)

\* event.data of a MessageEvent.  json tells what JSON.parse makes of the
\* text: "object" an object with the fields type, clientId and message (0
\* and NoMsg: the field is absent), "null" the value null, "invalid" a
\* SyntaxError.
RawFrame(json, type, cid, m) ==
  [json |-> json, type |-> type, clientId |-> cid, message |-> m]

\* A frame of the live channel: the text of an object.
Frame(type, cid, m) == RawFrame("object", type, cid, m)

\* The tags the service gives to a message-appended event.
EventTypes == {"chatUpdated", "new_message"}

\* The service sends frame f on every socket that is open.
Broadcast(socks, f) ==
  MapSeq(socks, LAMBDA sock :
    IF sock.rs = "OPEN" THEN [sock EXCEPT !.inbox = Append(@, f)] ELSE sock)

\* A customer writes to chat i: the service appends the message and pushes a
\* message-appended frame with the tag type.
CustomerMessage(i, type) ==
  /\ nextMsg < MaxMsgs
  /\ i \in 1..Len(server)
  /\ LET m == Message(nextMsg + 1, "customer", <<"q">>)
         cid == server[i].clientId
     IN /\ server' = ServerAppend(server, cid, m)
        /\ sockets' = Broadcast(sockets, Frame(type, cid, m))
        /\ lastEvent' = Event("env", 0, 0, FALSE)
  /\ nextMsg' = nextMsg + 1
  /\ UNCHANGED <<storeVars, isOnline, wsRef, reconnectTimeoutRef, timers, tasks,
                 nextChat, starts, mounted>>

\* The service creates a chat and lists it last.
ServerCreateChat ==
  /\ nextChat < MaxChats
  /\ LET log == ChatLog(nextChat + 1, ClientOf(nextChat + 1), <<>>, FALSE)
     IN /\ server' = Append(server, log)
        /\ lastEvent' = Event("env", 0, 0, FALSE)
  /\ nextChat' = nextChat + 1
  /\ UNCHANGED <<storeVars, chanVars, tasks, nextMsg, starts, mounted>>

\* Frames that are no message-appended event: text that is not JSON, the
\* JSON value null, an event of another type, an event without clientId and
\* an event without message (for the client cid, with the text "q").
OtherFrames(cid) ==
  { RawFrame("invalid", "", 0, NoMsg),
    RawFrame("null", "", 0, NoMsg),
    Frame("typing", cid, Message(0, "customer", <<"q">>)),
    Frame("chatUpdated", 0, Message(0, "customer", <<"q">>)),
    Frame("chatUpdated", cid, NoMsg) }

\* The service (or whoever writes to the socket) pushes frame f, which
\* records nothing in the logs.
ServerFrame(f) ==
  /\ \E s \in 1..Len(sockets) : sockets[s].rs = "OPEN"
  /\ \A s \in 1..Len(sockets) : Len(sockets[s].inbox) < MaxMsgs
  /\ sockets' = Broadcast(sockets, f)
  /\ lastEvent' = Event("env", 0, 0, FALSE)
  /\ UNCHANGED <<storeVars, isOnline, wsRef, reconnectTimeoutRef, timers, tasks,
                 envVars, starts, mounted>>

\* The service drops chat i.
ServerRemoveChat(i) ==
  /\ i \in 1..Len(server)
  /\ server' = [j \in 1..(Len(server) - 1) |->
                  IF j < i THEN server[j] ELSE server[j + 1]]
  /\ lastEvent' = Event("env", 0, 0, FALSE)
  /\ UNCHANGED <<storeVars, chanVars, tasks, nextMsg, nextChat, starts, mounted>>

\* The service handles the POST of updateAdminChatLog: it appends the message
\* and answers, or the call fails.
ServerPost(t, ok) ==
  /\ t \in tasks /\ t.phase = "post"
  /\ IF ok
     THEN /\ server' = ServerAppend(server, t.selClient, t.msg)
          /\ tasks' = (tasks \ {t}) \cup {[t EXCEPT !.phase = "posted"]}
     ELSE /\ server' = server
          /\ tasks' = (tasks \ {t}) \cup {[t EXCEPT !.phase = "postFailed"]}
  /\ lastEvent' = Event("env", 0, 0, FALSE)
  /\ UNCHANGED <<storeVars, chanVars, nextMsg, nextChat, starts, mounted>>

\* The service handles the GET of getAdminSupportLogs: the response carries
\* the logs as they are now, or no result, or the call fails.
ServerGet(t, result) ==
  /\ t \in tasks /\ t.phase = "get"
  /\ tasks' = (tasks \ {t}) \cup
       {[t EXCEPT !.phase = "got", !.result = result,
                  !.snap = IF result = "ok" THEN server ELSE <<>>]}
  /\ lastEvent' = Event("env", 0, 0, FALSE)
  /\ UNCHANGED <<storeVars, chanVars, envVars, starts, mounted>>

\* ------------------------------------------------------ handleSelectChat
SelectChatLogsAll(prev, log) ==
  MapSeq(prev, LAMBDA chat : [chat EXCEPT !.hasUnread = FALSE])

\* setChatLogs of handleSelectChat
SelectChatLogs(prev, log) ==
  MapSeq(prev, LAMBDA chat :
    IF chat.clientId = log.clientId THEN [chat EXCEPT !.hasUnread = FALSE]
    ELSE chat)

HandleSelectChatReconnects(i) ==
  /\ ~loading
  /\ i \in PaginatedPositions(chatLogs, page)
  /\ Len(sockets) < MaxSockets
  /\ selectedLog' = chatLogs[i]
  /\ chatLogs' = SelectChatLogs(chatLogs, chatLogs[i])
  /\ sockets' = Append(IF wsRef # 0
                       THEN [sockets EXCEPT ![wsRef] = WsClose(@, 1005)]
                       ELSE sockets, NewSocket)
  /\ wsRef' = Len(sockets) + 1
  /\ timers' = timers \ {reconnectTimeoutRef}
  /\ lastEvent' = Event("selectChat", 0, 0, FALSE)
  /\ UNCHANGED <<messageInput, page, loading, isOnline, reconnectTimeoutRef,
                 tasks, envVars, starts, mounted>>

\* A click on the list entry at position i of chatLogs.  The list shows the
\* current page and is hidden while loading.
HandleSelectChat(i) ==
  /\ ~loading
  /\ i \in PaginatedPositions(chatLogs, page)
  /\ selectedLog' = chatLogs[i]
  /\ chatLogs' = SelectChatLogs(chatLogs, chatLogs[i])
  /\ lastEvent' = Event("selectChat", 0, 0, FALSE)
  /\ UNCHANGED <<messageInput, page, loading, chanVars, tasks, envVars, starts,
                 mounted>>

\* onChange of the compose input, which is rendered when a chat is selected
SetMessageInput(text) ==
  /\ ~IsNull(selectedLog)
  /\ text # messageInput
  /\ messageInput' = text
  /\ lastEvent' = Event("env", 0, 0, FALSE)
  /\ UNCHANGED <<chatLogs, selectedLog, page, loading, chanVars, tasks, envVars,
                 starts, mounted>>

\* ----------------------------------------------------- handleSendMessage
\* the guard of handleSendMessage
SendReturnsEarly(sel, input) == IsNull(sel) \/ Trim(input) = <<>>

\* setSelectedLog of the optimistic update
SendSelectedLog(prev, m) ==
  IF IsNull(prev) THEN NoLog ELSE [prev EXCEPT !.userLogs = Append(@, m)]

SendChatLogsNone(prev, sel, m) == prev

\* setChatLogs of the optimistic update
SendChatLogs(prev, sel, m) ==
  MapSeq(prev, LAMBDA log :
    IF log.clientId = sel.clientId THEN [log EXCEPT !.userLogs = Append(@, m)]
    ELSE log)

\* handleSendMessage up to its first await, called by the Send button or by
\* the Enter key.
HandleSendMessage ==
  IF SendReturnsEarly(selectedLog, messageInput)
  THEN /\ lastEvent' = Event("sendNoop", 0, 0, FALSE)
       /\ UNCHANGED <<storeVars, chanVars, tasks, envVars, starts, mounted>>
  ELSE /\ nextMsg < MaxMsgs
       /\ LET m == Message(nextMsg + 1, "support", Trim(messageInput))
          IN /\ selectedLog' = SendSelectedLog(selectedLog, m)
             /\ chatLogs' = SendChatLogs(chatLogs, selectedLog, m)
             /\ tasks' = tasks \cup {Task("send", "post", starts, selectedLog, m)}
             /\ lastEvent' = Event("send", 0, 0, FALSE)
       /\ messageInput' = <<>>
       /\ nextMsg' = nextMsg + 1
       /\ UNCHANGED <<page, loading, chanVars, server, nextChat, starts, mounted>>

\* updateAdminChatLog resolved: handleSendMessage calls getAdminSupportLogs.
UpdateResolved(t) ==
  /\ t \in tasks /\ t.kind = "send" /\ t.phase = "posted"
  /\ tasks' = (tasks \ {t}) \cup {[t EXCEPT !.phase = "get"]}
  /\ lastEvent' = Event("updateResolved", 0, 0, FALSE)
  /\ UNCHANGED <<storeVars, chanVars, envVars, starts, mounted>>

\* updateAdminChatLog rejected: the catch block of handleSendMessage logs.
UpdateRejected(t) ==
  /\ t \in tasks /\ t.kind = "send" /\ t.phase = "postFailed"
  /\ tasks' = tasks \ {t}
  /\ lastEvent' = Event("updateRejected", 0, 0, FALSE)
  /\ UNCHANGED <<storeVars, chanVars, envVars, starts, mounted>>

RefreshedChatLogsMerge(prev, logs) == prev \o logs

\* setChatLogs(logs || []) of a fetch that returned logs
RefreshedChatLogs(prev, logs) == logs

\* updatedLog || logs[0] || null of the refresh in handleSendMessage; selId
\* is selectedLog._id of the render in which the send started.
RefreshedSelectedLog(logs, selId) ==
  LET updatedLog == FindLog(logs, LAMBDA log : log._id = selId)
  IN IF ~IsNull(updatedLog) THEN updatedLog
     ELSE IF Len(logs) > 0 THEN logs[1] ELSE NoLog

\* getAdminSupportLogs of handleSendMessage settled.  With logs the
\* collection and the selection are set from them; without a result
\* setChatLogs([]) has run when logs.find throws into the catch block; a
\* rejected call goes to the catch block directly.
RefreshResolved(t) ==
  /\ t \in tasks /\ t.kind = "send" /\ t.phase = "got"
  /\ tasks' = tasks \ {t}
  /\ chatLogs' = IF t.result = "ok" THEN RefreshedChatLogs(chatLogs, t.snap)
                 ELSE IF t.result = "missing" THEN <<>>
                 ELSE chatLogs
  /\ selectedLog' = IF t.result = "ok"
                    THEN RefreshedSelectedLog(t.snap, t.selId)
                    ELSE selectedLog
  /\ lastEvent' = Event("refresh", 0, 0, FALSE)
  /\ UNCHANGED <<messageInput, page, loading, chanVars, envVars, starts, mounted>>

\* ------------------------------------------------------------- fetchLogs
\* (logs && logs[0]) || null
FirstLog(logs) == IF Len(logs) > 0 THEN logs[1] ELSE NoLog

SignalNeverAborted(t) == FALSE

\* signal.aborted of the effect run that started fetchLogs t
SignalAborted(t) == t.aborted

\* getAdminSupportLogs of the mount effect settled; nothing is set when the
\* effect's signal is aborted.
FetchLogsResolved(t) ==
  /\ t \in tasks /\ t.kind = "init" /\ t.phase = "got"
  /\ tasks' = tasks \ {t}
  /\ IF SignalAborted(t)
     THEN UNCHANGED <<chatLogs, selectedLog, loading>>
     ELSE /\ chatLogs' = IF t.result = "ok" THEN RefreshedChatLogs(chatLogs, t.snap)
                         ELSE IF t.result = "missing" THEN <<>>
                         ELSE chatLogs
          /\ selectedLog' = IF t.result = "error" THEN selectedLog
                            ELSE FirstLog(t.snap)
          /\ loading' = FALSE
  /\ lastEvent' = Event("fetchLogs", 0, 0, FALSE)
  /\ UNCHANGED <<messageInput, page, chanVars, envVars, starts, mounted>>

\* ------------------------------------------------------ pagination buttons
\* Previous: setPage(p => Math.max(1, p - 1)), disabled when page = 1
PreviousPage ==
  /\ page # 1
  /\ page' = Max(1, page - 1)
  /\ lastEvent' = Event("previousPage", 0, 0, FALSE)
  /\ UNCHANGED <<chatLogs, selectedLog, messageInput, loading, chanVars, tasks,
                 envVars, starts, mounted>>

\* Next: setPage(p => Math.min(totalPages, p + 1)), disabled when
\* page = totalPages
NextPage ==
  /\ page # TotalPages(Len(chatLogs))
  /\ page' = Min(TotalPages(Len(chatLogs)), page + 1)
  /\ lastEvent' = Event("nextPage", 0, 0, FALSE)
  /\ UNCHANGED <<chatLogs, selectedLog, messageInput, loading, chanVars, tasks,
                 envVars, starts, mounted>>

\* ------------------------------------------------------------ ws.onmessage
\* JSON.parse(event.data) returns and reading data.clientId does not throw
\* (it throws a TypeError for null); else the catch block logs.
Parsed(f) == f.json = "object"

FrameAcceptedAnyType(f) ==
  f.clientId # 0 /\ f.message # NoMsg

\* data.clientId && data.message && data.type === "chatUpdated"
FrameAccepted(f) ==
  f.clientId # 0 /\ f.message # NoMsg /\ f.type = "chatUpdated"

PushedSelectedLogAny(prev, cid, m) ==
  IF IsNull(prev) THEN prev
  ELSE [prev EXCEPT !.userLogs = Append(@, m), !.hasUnread = FALSE]

\* setSelectedLog of onmessage
PushedSelectedLog(prev, cid, m) ==
  IF IsNull(prev) \/ prev.clientId # cid THEN prev
  ELSE [prev EXCEPT !.userLogs = Append(@, m), !.hasUnread = FALSE]

PushedChatLogsFirst(prev, cid, m, sel) ==
  MapSeq(prev, LAMBDA log :
    IF log.clientId = cid
    THEN [log EXCEPT !.userLogs = <<m>> \o @,
                     !.hasUnread = (log.clientId # sel.clientId)]
    ELSE log)

\* setChatLogs of onmessage; sel is the selectedLog of the handler's closure
PushedChatLogs(prev, cid, m, sel) ==
  MapSeq(prev, LAMBDA log :
    IF log.clientId = cid
    THEN [log EXCEPT !.userLogs = Append(@, m),
                     !.hasUnread = (log.clientId # sel.clientId)]
    ELSE log)

\* onmessage of socket s handles the next frame.
OnMessage(s) ==
  /\ s \in 1..Len(sockets)
  /\ sockets[s].rs \in {"OPEN", "CLOSING"}
  /\ sockets[s].inbox # <<>>
  /\ LET f == Head(sockets[s].inbox)
     IN /\ IF Parsed(f) /\ FrameAccepted(f)
           THEN /\ selectedLog' = PushedSelectedLog(selectedLog, f.clientId, f.message)
                /\ chatLogs' = PushedChatLogs(chatLogs, f.clientId, f.message,
                                              ClosureSelectedLog)
           ELSE UNCHANGED <<chatLogs, selectedLog>>
        /\ lastEvent' = Event("push", s, 0, FALSE)
  /\ sockets' = [sockets EXCEPT ![s].inbox = Tail(@)]
  /\ UNCHANGED <<messageInput, page, loading, isOnline, wsRef, reconnectTimeoutRef,
                 timers, tasks, envVars, starts, mounted>>

\* ---------------------------------------------------------------- ws.onopen
OnOpenKeepsTimer(s) ==
  /\ s \in 1..Len(sockets)
  /\ sockets[s].rs = "CONNECTING"
  /\ isOnline' = TRUE
  /\ sockets' = [sockets EXCEPT ![s].rs = "OPEN", ![s].ct = FALSE]
  /\ lastEvent' = Event("open", s,
                        IF reconnectTimeoutRef \in timers THEN reconnectTimeoutRef
                        ELSE 0, FALSE)
  /\ UNCHANGED <<storeVars, wsRef, reconnectTimeoutRef, timers, tasks, envVars,
                 starts, mounted>>

\* The connection of socket s is established: onopen sets the indicator,
\* clears the reconnect timeout and the connection timeout.
OnOpen(s) ==
  /\ s \in 1..Len(sockets)
  /\ sockets[s].rs = "CONNECTING"
  /\ isOnline' = TRUE
  /\ timers' = timers \ {reconnectTimeoutRef}
  /\ reconnectTimeoutRef' = 0
  /\ sockets' = [sockets EXCEPT ![s].rs = "OPEN", ![s].ct = FALSE]
  /\ lastEvent' = Event("open", s,
                        IF reconnectTimeoutRef \in timers THEN reconnectTimeoutRef
                        ELSE 0, FALSE)
  /\ UNCHANGED <<storeVars, wsRef, tasks, envVars, starts, mounted>>

\* --------------------------------------------------- ws.onerror, ws.onclose
\* The browser closes socket s and delivers the CloseEvent (after an error
\* event when the connection failed): onclose clears the indicator and
\* wsRef, clears the connection timeout and schedules a reconnect.  The
\* timeout it schedules is named after the socket.
OnClose(s, code, wasClean) ==
  /\ s \in 1..Len(sockets)
  /\ <<code, wasClean>> \in CloseEvents(sockets[s])
  /\ isOnline' = FALSE
  /\ wsRef' = 0
  /\ sockets' = [sockets EXCEPT ![s].rs = "CLOSED", ![s].ct = FALSE,
                                ![s].inbox = <<>>]
  /\ IF ShouldReconnect(reconnectTimeoutRef, code, wasClean)
     THEN /\ timers' = timers \cup {s}
          /\ reconnectTimeoutRef' = s
     ELSE UNCHANGED <<timers, reconnectTimeoutRef>>
  /\ lastEvent' = Event("close", s, code, wasClean)
  /\ UNCHANGED <<storeVars, tasks, envVars, starts, mounted>>

\* The connection timeout of socket s fires: a socket that is not open is
\* closed.
ConnectionTimeout(s) ==
  /\ s \in 1..Len(sockets)
  /\ sockets[s].ct
  /\ sockets' = [sockets EXCEPT
       ![s] = IF @.rs # "OPEN" THEN [WsClose(@, 1005) EXCEPT !.ct = FALSE]
              ELSE [@ EXCEPT !.ct = FALSE]]
  /\ lastEvent' = Event("connectionTimeout", s, 0, FALSE)
  /\ UNCHANGED <<storeVars, isOnline, wsRef, reconnectTimeoutRef, timers, tasks,
                 envVars, starts, mounted>>

\* The reconnect timeout k fires: it clears the ref and calls
\* connectWebSocket.
ReconnectTimeout(k) ==
  /\ k \in timers
  /\ Len(sockets) < MaxSockets \/ ConnectSkips(wsRef, sockets)
  /\ timers' = timers \ {k}
  /\ reconnectTimeoutRef' = 0
  /\ LET c == ConnectWebSocket(wsRef, sockets)
     IN wsRef' = c.wsRef /\ sockets' = c.sockets
  /\ lastEvent' = Event("reconnectTimeout", 0, 0, FALSE)
  /\ UNCHANGED <<storeVars, isOnline, tasks, envVars, starts, mounted>>

\* ------------------------------------------------------- the mount effects
\* The effects run: connectWebSocket() and fetchLogs().
Start ==
  /\ ~mounted
  /\ starts < MaxStarts
  /\ CanConnect
  /\ LET c == ConnectWebSocket(wsRef, sockets)
     IN wsRef' = c.wsRef /\ sockets' = c.sockets
  /\ loading' = TRUE
  /\ tasks' = tasks \cup {Task("init", "get", starts + 1, NoLog, NoMsg)}
  /\ starts' = starts + 1
  /\ mounted' = TRUE
  /\ lastEvent' = Event("start", 0, 0, FALSE)
  /\ UNCHANGED <<chatLogs, selectedLog, messageInput, page, isOnline,
                 reconnectTimeoutRef, timers, envVars>>

\* The cleanups of the effects run: the reconnect timeout is cleared, the
\* socket is closed with code 1000 and forgotten, the fetch is aborted.
Stop ==
  /\ mounted
  /\ timers' = timers \ {reconnectTimeoutRef}
  /\ reconnectTimeoutRef' = 0
  /\ sockets' = IF wsRef # 0
                THEN [sockets EXCEPT ![wsRef] = WsClose(@, NORMAL_CLOSURE)]
                ELSE sockets
  /\ wsRef' = 0
  /\ tasks' = {IF t.kind = "init" THEN [t EXCEPT !.aborted = TRUE] ELSE t : t \in tasks}
  /\ mounted' = FALSE
  /\ lastEvent' = Event("stop", 0, 0, FALSE)
  /\ UNCHANGED <<storeVars, isOnline, envVars, starts>>

\* ------------------------------------------------------------------- Next
\* The Live Channel Manager with the browser's socket and timer events.
NextChannel ==
  \/ Start
  \/ Stop
  \/ \E s \in 1..MaxSockets : OnOpen(s)
  \/ \E s \in 1..MaxSockets, code \in {1000, 1001, 1005, 1006}, wasClean \in BOOLEAN :
       OnClose(s, code, wasClean)
  \/ \E s \in 1..MaxSockets : ConnectionTimeout(s)
  \/ \E k \in 1..MaxSockets : ReconnectTimeout(k)

\* The Chat State Store with the remote service, on a channel that connects
\* and delivers the frames pushed to it.
NextStore ==
  \/ Start
  \/ \E s \in 1..MaxSockets : OnOpen(s)
  \/ \E s \in 1..MaxSockets : OnMessage(s)
  \/ \E i \in 1..MaxChats : HandleSelectChat(i)
  \/ \E text \in Inputs : SetMessageInput(text)
  \/ HandleSendMessage
  \/ \E t \in tasks : UpdateResolved(t)
  \/ \E t \in tasks : UpdateRejected(t)
  \/ \E t \in tasks : RefreshResolved(t)
  \/ \E t \in tasks : FetchLogsResolved(t)
  \/ \E i \in 1..MaxChats : CustomerMessage(i, "chatUpdated")
  \/ ServerCreateChat
  \/ \E i \in 1..MaxChats : ServerRemoveChat(i)
  \/ \E t \in tasks, ok \in BOOLEAN : ServerPost(t, ok)
  \/ \E t \in tasks, result \in {"ok", "missing", "error"} : ServerGet(t, result)

\* The handler of inbound frames, with a service that pushes frames of
\* every kind.
NextFrames ==
  \/ Start
  \/ \E s \in 1..MaxSockets : OnOpen(s)
  \/ \E s \in 1..MaxSockets : OnMessage(s)
  \/ \E i \in 1..MaxChats : HandleSelectChat(i)
  \/ \E t \in tasks : FetchLogsResolved(t)
  \/ \E i \in 1..MaxChats, type \in EventTypes : CustomerMessage(i, type)
  \/ \E i \in 1..MaxChats : \E f \in OtherFrames(ClientOf(i)) : ServerFrame(f)
  \/ ServerCreateChat
  \/ \E t \in tasks, result \in {"ok", "missing", "error"} : ServerGet(t, result)

\* The mount effects, their cleanups and the initial fetch.
NextView ==
  \/ Start
  \/ Stop
  \/ \E i \in 1..MaxChats : HandleSelectChat(i)
  \/ \E t \in tasks : FetchLogsResolved(t)
  \/ ServerCreateChat
  \/ \E t \in tasks, result \in {"ok", "missing", "error"} : ServerGet(t, result)

\* The list of chats with its page buttons.
NextPages ==
  \/ PreviousPage
  \/ NextPage
  \/ \E i \in 1..MaxListed : HandleSelectChat(i)

Next ==
  \/ NextChannel
  \/ NextStore
  \/ NextFrames
  \/ NextView
  \/ NextPages

\* The page after the mount effects have run and the initial fetch has
\* returned a list of n chats, n up to MaxListed.
InitPages ==
  \E n \in 0..MaxListed :
    /\ chatLogs = [i \in 1..n |-> ChatLog(i, ClientOf(i), <<>>, FALSE)]
    /\ selectedLog = FirstLog(chatLogs)
    /\ messageInput = <<>>
    /\ page = 1
    /\ loading = FALSE
    /\ isOnline = FALSE
    /\ wsRef = 1
    /\ reconnectTimeoutRef = 0
    /\ sockets = <<NewSocket>>
    /\ timers = {}
    /\ tasks = {}
    /\ server = chatLogs
    /\ nextMsg = 0
    /\ nextChat = n
    /\ starts = 1
    /\ mounted = TRUE
    /\ lastEvent = Event("fetchLogs", 0, 0, FALSE)

\* the whole page
Spec == Init /\ [][Next]_vars

\* the channel alone
SpecChannel == Init /\ [][NextChannel]_vars

\* the store alone
SpecStore == Init /\ [][NextStore]_vars

\* the handler of inbound frames
SpecFrames == Init /\ [][NextFrames]_vars

\* mounting and unmounting
SpecView == Init /\ [][NextView]_vars

\* the paginated list
SpecPages == InitPages /\ [][NextPages]_vars

\* ---------------------------------------------------------------- claims
\* the messages of a sequence, and whether each occurs once
Range(seq) == { seq[k] : k \in 1..Len(seq) }
EachOnce(seq) == \A k, l \in 1..Len(seq) : seq[k] = seq[l] => k = l

\* the text is empty or white space only (stated without Trim)
IsBlank(text) == \A k \in 1..Len(text) : text[k] = " "

\* This step is onmessage of socket s handling a message-appended frame,
\* PushFrame(s).
PushFrame(s) == Head(sockets[s].inbox)
IsPush(s) ==
  /\ lastEvent'.op = "push" /\ lastEvent'.sock = s
  /\ s \in 1..Len(sockets) /\ sockets[s].inbox # <<>>
  /\ Parsed(PushFrame(s)) /\ FrameAccepted(PushFrame(s))

\* This step applies the logs that the fetch of task t returned.
AppliesSnapshot(t) ==
  /\ lastEvent'.op \in {"refresh", "fetchLogs"}
  /\ t \in tasks /\ t \notin tasks'
  /\ t.phase = "got" /\ t.result = "ok" /\ ~t.aborted

\* C1: no duplicates.  In every reachable state every message occurs at most
\* once in the message sequence of each chat of the collection and in the
\* selected conversation.
C1_NoDuplicates ==
  /\ \A i \in 1..Len(chatLogs) : EachOnce(chatLogs[i].userLogs)
  /\ EachOnce(selectedLog.userLogs)

\* C2: no loss.  A message that is in the message sequence of a chat of the
\* collection is still in it after every step that keeps the chat, and a
\* message of the selected conversation is still in it after every step
\* that keeps the same chat selected.
C2_NoLoss ==
  [][ /\ \A i \in 1..Len(chatLogs) : \A j \in 1..Len(chatLogs') :
           chatLogs'[j]._id = chatLogs[i]._id =>
             Range(chatLogs[i].userLogs) \subseteq Range(chatLogs'[j].userLogs)
      /\ selectedLog'._id = selectedLog._id =>
           Range(selectedLog.userLogs) \subseteq Range(selectedLog'.userLogs)
    ]_vars

\* C3: a snapshot replaces.  Right after fetched logs are applied the
\* collection equals them, the selection is one of their entries or none,
\* and every message (one sent optimistically before included) occurs once
\* in each chat and in the selected conversation.
C3_SnapshotReplaces ==
  [][ \A t \in tasks : AppliesSnapshot(t) =>
        /\ chatLogs' = t.snap
        /\ IsNull(selectedLog') \/ selectedLog' \in Range(t.snap)
        /\ \A i \in 1..Len(chatLogs') : EachOnce(chatLogs'[i].userLogs)
        /\ EachOnce(selectedLog'.userLogs)
    ]_vars

\* C3 happens: a refresh has been applied that contains a message the
\* operator sent, and the chat it was sent in is selected.
C3_Witness ==
  /\ lastEvent.op = "refresh"
  /\ \E i \in 1..Len(chatLogs) :
       /\ \E m \in Range(chatLogs[i].userLogs) : m.sender = "support"
       /\ selectedLog = chatLogs[i]

\* the entry of logs with the id of log, else the first entry, else none
EntryOrFirst(logs, log) ==
  IF \E k \in 1..Len(logs) : logs[k]._id = log._id
  THEN logs[CHOOSE k \in 1..Len(logs) : logs[k]._id = log._id]
  ELSE IF Len(logs) > 0 THEN logs[1] ELSE NoLog

\* C4: selection after a snapshot.  Right after fetched logs are applied the
\* selection is their entry with the id of the chat selected just before,
\* if there is one, else their first entry, else none.
C4_SelectionAfterSnapshot ==
  [][ \A t \in tasks : AppliesSnapshot(t) =>
        selectedLog' = EntryOrFirst(t.snap, selectedLog)
    ]_vars

\* C5: unread rule on push.  When onmessage handles a message for client X,
\* the collection entry of X is afterwards read if X is the chat selected
\* when the frame is handled and unread otherwise.
C5_UnreadRule ==
  [][ \A s \in 1..Len(sockets) : IsPush(s) =>
        \A j \in 1..Len(chatLogs') :
          chatLogs'[j].clientId = PushFrame(s).clientId =>
            chatLogs'[j].hasUnread = (selectedLog.clientId # PushFrame(s).clientId)
    ]_vars

\* C6: frame of a push.  When onmessage handles a message for client X, the
\* chats of X get the message appended and nothing else of them changes
\* but the unread flag, every other chat of the collection is unchanged,
\* the same chat stays selected, the selected conversation is unchanged
\* when it is not X's, and nothing of the store changes when X is neither
\* in the collection nor selected.
C6_PushFrame ==
  [][ \A s \in 1..Len(sockets) : IsPush(s) =>
        LET X == PushFrame(s).clientId
            m == PushFrame(s).message
        IN /\ Len(chatLogs') = Len(chatLogs)
           /\ \A j \in 1..Len(chatLogs) :
                IF chatLogs[j].clientId = X
                THEN chatLogs'[j] =
                       [chatLogs[j] EXCEPT !.userLogs = Append(@, m),
                                           !.hasUnread = chatLogs'[j].hasUnread]
                ELSE chatLogs'[j] = chatLogs[j]
           /\ selectedLog'._id = selectedLog._id
           /\ selectedLog.clientId # X => selectedLog' = selectedLog
           /\ selectedLog.clientId = X =>
                selectedLog'.userLogs = Append(selectedLog.userLogs, m)
           /\ UNCHANGED <<messageInput, page, loading>>
           /\ ( /\ selectedLog.clientId # X
                /\ \A j \in 1..Len(chatLogs) : chatLogs[j].clientId # X )
              => UNCHANGED storeVars
    ]_vars

\* C6 happens: a push for a chat that is not selected has been handled; that
\* chat is unread and has the message, the selected chat has no message.
C6_Witness ==
  /\ lastEvent.op = "push"
  /\ \E i, j \in 1..Len(chatLogs) :
       /\ i # j
       /\ chatLogs[i].hasUnread /\ chatLogs[i].userLogs # <<>>
       /\ selectedLog = chatLogs[j] /\ selectedLog.userLogs = <<>>

\* C7: selectChat.  A click on a chat c of the list makes c the selection
\* and leaves the collection entry of c read; every other entry and every
\* message sequence is unchanged; handling the same click once more changes
\* nothing.
C7_SelectChat ==
  [][ lastEvent'.op = "selectChat" =>
        \E i \in 1..Len(chatLogs) :
          LET c == chatLogs[i]
          IN /\ selectedLog' = c
             /\ Len(chatLogs') = Len(chatLogs)
             /\ \A j \in 1..Len(chatLogs) :
                  IF chatLogs[j].clientId = c.clientId
                  THEN chatLogs'[j] = [chatLogs[j] EXCEPT !.hasUnread = FALSE]
                  ELSE chatLogs'[j] = chatLogs[j]
             /\ SelectChatLogs(chatLogs', c) = chatLogs'
    ]_vars

\* C7 happens: a chat that was unread has been selected (the selection is
\* the entry as it was when clicked) and its collection entry is read.
C7_Witness ==
  /\ lastEvent.op = "selectChat"
  /\ selectedLog.hasUnread
  /\ \E i, j \in 1..Len(chatLogs) :
       /\ i # j
       /\ chatLogs[i]._id = selectedLog._id /\ ~chatLogs[i].hasUnread
       /\ chatLogs[j].hasUnread

\* C8: an empty send is a no-op.  handleSendMessage, called while no chat is
\* selected or while the compose text is empty or white space only, appends
\* no message, issues no request and leaves the compose input as it is.
C8_EmptySendIsNoop ==
  [][ ( /\ lastEvent'.op \in {"send", "sendNoop"}
        /\ IsNull(selectedLog) \/ IsBlank(messageInput) )
      => UNCHANGED <<chatLogs, selectedLog, messageInput, tasks, server, nextMsg>>
    ]_vars

\* C8 happens: handleSendMessage has been called with a chat selected and a
\* compose text of white space.
C8_Witness ==
  /\ lastEvent.op = "sendNoop"
  /\ ~IsNull(selectedLog)
  /\ messageInput = <<" ">>

\* C9: at most one reconnect timeout is pending in every reachable state,
\* and exactly one is pending right after an abnormal close (code other than
\* 1000, not clean).
C9_OneReconnectTimer ==
  /\ Cardinality(timers) <= 1
  /\ ( /\ lastEvent.op = "close"
       /\ lastEvent.code # NORMAL_CLOSURE /\ ~lastEvent.wasClean )
     => Cardinality(timers) = 1

\* C9 happens: a socket has closed abnormally while the reconnect timeout
\* scheduled by the close of another socket was pending.
C9_Witness ==
  /\ lastEvent.op = "close"
  /\ lastEvent.code # NORMAL_CLOSURE /\ ~lastEvent.wasClean
  /\ reconnectTimeoutRef # 0
  /\ reconnectTimeoutRef # lastEvent.sock
  /\ reconnectTimeoutRef \in timers

\* C10: after the cleanup of the mount effect, and until the effect runs
\* again, no reconnect timeout is pending.
C10_NoReconnectAfterStop ==
  (starts > 0 /\ ~mounted) => timers = {}

\* the sockets that are connecting or open
LiveSockets == { s \in 1..Len(sockets) : sockets[s].rs \in {"CONNECTING", "OPEN"} }

\* C11: single connection.  In every reachable state at most one socket is
\* connecting or open, and wsRef refers to it.
C11_SingleConnection ==
  /\ Cardinality(LiveSockets) <= 1
  /\ \A s \in LiveSockets : wsRef = s

\* C12: start is idempotent.  connectWebSocket, called while the socket of
\* wsRef is connecting or open, constructs no socket, closes none, leaves
\* wsRef and the online indicator as they are and schedules or cancels no
\* reconnect timeout (of the pending timeouts only the one whose callback
\* made the call is gone).
C12_StartIdempotent ==
  [][ ( /\ lastEvent'.op \in {"start", "reconnectTimeout"}
        /\ wsRef # 0
        /\ sockets[wsRef].rs \in {"CONNECTING", "OPEN"} )
      => /\ sockets' = sockets
         /\ wsRef' = wsRef
         /\ isOnline' = isOnline
         /\ timers' \subseteq timers
         /\ Cardinality(timers \ timers') <= 1
    ]_vars

\* C12 happens: the reconnect timeout has called connectWebSocket while the
\* socket made by the second run of the mount effect was connecting or open
\* (each of the two sockets was made by a run of the effect, none by the
\* timeout).
C12_Witness ==
  /\ lastEvent.op = "reconnectTimeout"
  /\ starts = 2 /\ Len(sockets) = 2
  /\ wsRef = 2
  /\ sockets[2].rs \in {"CONNECTING", "OPEN"}

\* C13: a reconnect is pending after every close that the cleanup did not
\* start.  While the effect is mounted, the channel is never disconnected
\* (every socket closed) with no reconnect timeout pending.
C13_ReconnectPending ==
  (mounted /\ \A s \in 1..Len(sockets) : sockets[s].rs = "CLOSED")
    => timers # {}

\* This step is onmessage of socket s handling the frame PushFrame(s).
IsOnMessage(s) ==
  /\ lastEvent'.op = "push" /\ lastEvent'.sock = s
  /\ s \in 1..Len(sockets) /\ sockets[s].inbox # <<>>

\* the frame is a message-appended event with either of the two tags
IsMessageAppended(f) ==
  /\ f.json = "object"
  /\ f.type \in {"chatUpdated", "new_message"}
  /\ f.clientId # 0 /\ f.message # NoMsg

\* C14: the two tags are equivalent.  When onmessage handles a frame with
\* type "chatUpdated" or "new_message", a clientId and a message, the message
\* is appended to the chat of that client in the collection and to the
\* selected conversation when it is that client's.
C14_TagsEquivalent ==
  [][ \A s \in 1..Len(sockets) :
        (IsOnMessage(s) /\ IsMessageAppended(PushFrame(s))) =>
          LET f == PushFrame(s)
          IN /\ Len(chatLogs') = Len(chatLogs)
             /\ \A j \in 1..Len(chatLogs) :
                  chatLogs[j].clientId = f.clientId =>
                    chatLogs'[j].userLogs = Append(chatLogs[j].userLogs, f.message)
             /\ selectedLog.clientId = f.clientId =>
                  selectedLog'.userLogs = Append(selectedLog.userLogs, f.message)
    ]_vars

\* C15: a frame that is dropped.  When onmessage handles a frame that is not
\* JSON, is the JSON value null, has a type that is neither tag, or has no
\* clientId or no message, the collection, the selection, the unread flags,
\* the online indicator, wsRef and the reconnect timeout are unchanged, the
\* socket stays as it is and the frames after it are still to be handled.
C15_BadFrameDropped ==
  [][ \A s \in 1..Len(sockets) :
        (IsOnMessage(s) /\ ~IsMessageAppended(PushFrame(s))) =>
          /\ UNCHANGED <<storeVars, isOnline, wsRef, reconnectTimeoutRef, timers>>
          /\ sockets' = [sockets EXCEPT ![s].inbox = Tail(@)]
    ]_vars

\* C15 happens: onmessage has handled a frame that the service pushed
\* without recording a message (the one message created so far is in the
\* frame that comes next), and the socket is open with that next frame, a
\* message for a chat of the collection, to be handled.
C15_Witness ==
  /\ lastEvent.op = "push"
  /\ nextMsg = 1
  /\ \E s \in 1..Len(sockets) :
       /\ lastEvent.sock = s
       /\ sockets[s].rs = "OPEN"
       /\ Len(sockets[s].inbox) = 1
       /\ sockets[s].inbox[1].type = "chatUpdated"
       /\ sockets[s].inbox[1].message.mid = 1
       /\ \E j \in 1..Len(chatLogs) :
            chatLogs[j].clientId = sockets[s].inbox[1].clientId

\* This step is the handler of task t observing that its request failed or
\* returned no logs.
ObservesFailure(t) ==
  /\ lastEvent'.op \in {"updateRejected", "refresh", "fetchLogs"}
  /\ t \in tasks /\ t \notin tasks'
  /\ t.phase = "postFailed" \/ (t.phase = "got" /\ t.result # "ok")

\* C16: a failure clears nothing.  When a handler observes that
\* getAdminSupportLogs failed or returned no logs, or that updateAdminChatLog
\* failed, the collection and the selection are what they were just before
\* (a message appended optimistically included).
C16_FailureKeepsState ==
  [][ \A t \in tasks : ObservesFailure(t) => UNCHANGED <<chatLogs, selectedLog>>
    ]_vars

\* C17: no send while a send is outstanding or the channel is offline.
\* handleSendMessage appends a message and issues a request only when the
\* online indicator is set and no earlier send is between its POST and the
\* end of its refresh.
C17_SendOnlyWhenIdleAndOnline ==
  [][ lastEvent'.op = "send" =>
        /\ isOnline
        /\ \A t \in tasks : t.kind # "send"
    ]_vars

\* This step is the initial fetch t settling after the effect run that
\* started it was cleaned up.
SettlesAfterTeardown(t) ==
  /\ lastEvent'.op = "fetchLogs"
  /\ t \in tasks /\ t \notin tasks'
  /\ t.kind = "init"
  /\ ~(mounted /\ t.gen = starts)

\* C18: the initial fetch is cancelled.  When the fetch of a mount effect
\* settles (with logs or with a failure) after the cleanup of that effect
\* has run, the collection, the selection and the loading flag are
\* unchanged.
C18_AbortedFetchDiscarded ==
  [][ \A t \in tasks : SettlesAfterTeardown(t) =>
        UNCHANGED <<chatLogs, selectedLog, loading>>
    ]_vars

\* C18 happens: an initial fetch has settled after the cleanup while the
\* service had chats; the collection is still empty and the loading flag is
\* still set.
C18_Witness ==
  /\ lastEvent.op = "fetchLogs"
  /\ ~mounted
  /\ server # <<>>
  /\ chatLogs = <<>> /\ IsNull(selectedLog) /\ loading

\* C19: the store does not drive the connection.  handleSelectChat,
\* handleSendMessage (every segment of it), fetchLogs and onmessage leave the
\* online indicator, wsRef, the reconnect timeout and the state of every
\* socket unchanged, and construct no socket.
C19_StoreKeepsChannel ==
  [][ lastEvent'.op \in {"selectChat", "send", "sendNoop", "updateResolved",
                         "updateRejected", "refresh", "fetchLogs", "push"}
      => /\ UNCHANGED <<isOnline, wsRef, reconnectTimeoutRef, timers>>
         /\ Len(sockets') = Len(sockets)
         /\ \A s \in 1..Len(sockets) :
              /\ sockets'[s].rs = sockets[s].rs
              /\ sockets'[s].closeReq = sockets[s].closeReq
    ]_vars

\* C19 happens: with the socket open, a chat other than the first has been
\* selected.
C19_Witness ==
  /\ lastEvent.op = "selectChat"
  /\ isOnline /\ wsRef # 0 /\ sockets[wsRef].rs = "OPEN"
  /\ Len(chatLogs) >= 2
  /\ selectedLog._id = chatLogs[2]._id

\* the chats at positions from..to of the collection, in collection order
Positions(logs, from, to) == [k \in 1..(to - from + 1) |-> logs[from + k - 1]]

\* C20: pagination.  With n chats in the collection the number of pages is
\* the least k with 5k >= n, and page p of 1..k shows the chats at positions
\* 5(p-1)+1 .. min(5p, n) in collection order (so no chat is left out,
\* repeated or moved); the entries that can be clicked on page p are the
\* same positions; 12 chats make 3 pages, the first with chats 1-5 and the
\* third with chats 11-12.
C20_Pagination ==
  LET n == Len(chatLogs)
      k == TotalPages(n)
      last(p) == IF 5 * p < n THEN 5 * p ELSE n
  IN /\ 5 * k >= n /\ 5 * (k - 1) < n
     /\ \A p \in 1..k :
          /\ PaginatedLogs(chatLogs, p) = Positions(chatLogs, 5 * (p - 1) + 1, last(p))
          /\ PaginatedPositions(chatLogs, p) = (5 * (p - 1) + 1)..last(p)
     /\ n = 12 =>
          /\ k = 3
          /\ PaginatedLogs(chatLogs, 1) = SubSeq(chatLogs, 1, 5)
          /\ PaginatedLogs(chatLogs, 3) = SubSeq(chatLogs, 11, 12)

\* C20 happens: of 12 chats the third page is shown and its last entry,
\* chat 12, has been clicked.
C20_Witness ==
  /\ Len(chatLogs) = 12
  /\ page = 3
  /\ lastEvent.op = "selectChat"
  /\ selectedLog = chatLogs[12]

\* c is text without the white space at its two ends, and is not empty
IsTrimOf(c, text) ==
  /\ c # <<>> /\ c[1] # " " /\ c[Len(c)] # " "
  /\ \E a \in 0..Len(text) :
       /\ a + Len(c) <= Len(text)
       /\ SubSeq(text, a + 1, a + Len(c)) = c
       /\ \A k \in 1..Len(text) : (k <= a \/ k > a + Len(c)) => text[k] = " "

\* C21: the order of a send.  The step of handleSendMessage that sends
\* appends the new message (sender support, the trimmed text) to the
\* selected conversation and to the collection entries with its clientId,
\* clears the compose input and issues one updateAdminChatLog request for
\* that message and client; no other step issues such a request; the
\* getAdminSupportLogs of a send is issued only by the step that sees its
\* updateAdminChatLog resolved; and the logs it returns replace the
\* collection.
C21_SendOrder ==
  [][ /\ lastEvent'.op = "send" =>
           \E t \in tasks' \ tasks :
             /\ tasks' = tasks \cup {t}
             /\ t.kind = "send" /\ t.phase = "post"
             /\ t.selClient = selectedLog.clientId
             /\ t.msg.sender = "support"
             /\ IsTrimOf(t.msg.content, messageInput)
             /\ selectedLog' = [selectedLog EXCEPT !.userLogs = Append(@, t.msg)]
             /\ Len(chatLogs') = Len(chatLogs)
             /\ \A j \in 1..Len(chatLogs) :
                  chatLogs'[j] =
                    IF chatLogs[j].clientId = selectedLog.clientId
                    THEN [chatLogs[j] EXCEPT !.userLogs = Append(@, t.msg)]
                    ELSE chatLogs[j]
             /\ messageInput' = <<>>
      /\ lastEvent'.op # "send" => \A t \in tasks' \ tasks : t.phase # "post"
      /\ \A t \in tasks' \ tasks :
           (t.kind = "send" /\ t.phase = "get") =>
             /\ lastEvent'.op = "updateResolved"
             /\ \E u \in tasks \ tasks' :
                  u.phase = "posted" /\ t = [u EXCEPT !.phase = "get"]
      /\ \A t \in tasks' \ tasks :
           t.phase = "posted" => \E u \in tasks \ tasks' : u.phase = "post"
      /\ \A t \in tasks :
           (AppliesSnapshot(t) /\ t.kind = "send") => chatLogs' = t.snap
    ]_vars

\* C21 happens: a message has been sent in the selected chat; it is the last
\* message of the selected conversation and of the collection entry, the
\* compose input is empty and its request is in flight.
C21_Witness ==
  /\ lastEvent.op = "send"
  /\ messageInput = <<>>
  /\ \E t \in tasks :
       /\ t.phase = "post"
       /\ t.msg.content = <<"h">>
       /\ selectedLog.userLogs # <<>>
       /\ selectedLog.userLogs[Len(selectedLog.userLogs)] = t.msg
       /\ \E j \in 1..Len(chatLogs) :
            /\ chatLogs[j].clientId = selectedLog.clientId
            /\ chatLogs[j].userLogs = selectedLog.userLogs

\* C22: an open clears the reconnect timeout.  Right after onopen the online
\* indicator is set and no reconnect timeout is pending.
C22_OpenClearsTimer ==
  [][ lastEvent'.op = "open" => (isOnline' /\ timers' = {}) ]_vars

\* C22 happens: a socket has opened while a reconnect timeout was pending.
C22_Witness ==
  /\ lastEvent.op = "open"
  /\ lastEvent.code # 0
  /\ isOnline
  /\ sockets[lastEvent.sock].rs = "OPEN"

\* s is a prefix of t that is at most one element shorter
GrowsAtEnd(s, t) ==
  /\ Len(s) <= Len(t) /\ Len(t) <= Len(s) + 1
  /\ SubSeq(t, 1, Len(s)) = s

\* C23: appends keep the order.  onmessage and the optimistic update of
\* handleSendMessage change the message sequence of a chat of the collection
\* and of the selected conversation only by adding one message at the end.
C23_AppendsKeepOrder ==
  [][ lastEvent'.op \in {"push", "send"} =>
        /\ Len(chatLogs') = Len(chatLogs)
        /\ \A j \in 1..Len(chatLogs) :
             GrowsAtEnd(chatLogs[j].userLogs, chatLogs'[j].userLogs)
        /\ GrowsAtEnd(selectedLog.userLogs, selectedLog'.userLogs)
    ]_vars

\* C23 happens: a pushed message has been added after the message the
\* operator sent before, in the collection and in the selected conversation.
C23_Witness ==
  /\ lastEvent.op = "push"
  /\ Len(selectedLog.userLogs) = 2
  /\ selectedLog.userLogs[1].sender = "support"
  /\ selectedLog.userLogs[2].sender = "customer"
  /\ \E j \in 1..Len(chatLogs) : chatLogs[j].userLogs = selectedLog.userLogs

\* C24: the selection is consistent with the collection.  In every reachable
\* state in which a chat is selected the collection has an entry with its
\* id, and the message sequence of that entry is that of the selected
\* conversation.
C24_SelectionInCollection ==
  ~IsNull(selectedLog) =>
    \E j \in 1..Len(chatLogs) :
      /\ chatLogs[j]._id = selectedLog._id
      /\ chatLogs[j].userLogs = selectedLog.userLogs

\* C25: an unread flag stays until the chat is selected.  The unread flag of
\* a chat of the collection that is not the selected chat is still set after
\* every step that keeps the chat in the collection, except a click on that
\* chat.
C25_UnreadStays ==
  [][ \A j \in 1..Len(chatLogs) :
        ( /\ chatLogs[j].hasUnread
          /\ chatLogs[j].clientId # selectedLog.clientId
          /\ ~(lastEvent'.op = "selectChat" /\ selectedLog'._id = chatLogs[j]._id) )
        => \A k \in 1..Len(chatLogs') :
             chatLogs'[k]._id = chatLogs[j]._id => chatLogs'[k].hasUnread
    ]_vars

\* C26: the page number is in range.  In every reachable state
\* 1 <= page <= max(1, ceil(n / 5)) with n the number of chats of the
\* collection.
C26_PageInRange ==
  LET n == Len(chatLogs)
      pages == IF n = 0 THEN 1 ELSE (n + 4) \div 5
  IN 1 <= page /\ page <= pages

\* C27: the online indicator tracks the connection.  In every reachable
\* state the indicator is set only if wsRef refers to a socket that is open,
\* and it is clear right after onclose (with onerror) and after the cleanup
\* of the mount effect.
C27_OnlineTracksConnection ==
  /\ isOnline => (wsRef # 0 /\ sockets[wsRef].rs = "OPEN")
  /\ lastEvent.op \in {"close", "stop"} => ~isOnline

====
